---- MODULE Spec2Model ----
(***************************************************************************)
(* Model of the error_type! macro family of src/src/lib.rs.                *)
(*                                                                         *)
(* The state is one macro invocation being expanded by the compiler: the   *)
(* invocation's token tree, the macro call currently at the head of the    *)
(* expansion (error_type, error_type_impl, error_type_var_body,            *)
(* error_type_var_body_emit), the items emitted so far, and, once the      *)
(* expansion is accepted, a value of the generated enum on which the       *)
(* generated From / Display / Error implementations are run.               *)
(*                                                                         *)
(* Token trees: a parenthesised group is a sequence, so the unset slot     *)
(* `()` of the accumulator is the empty sequence <<>>.                     *)
(***************************************************************************)
EXTENDS Integers, Sequences, FiniteSets, TLC

VARIABLES invocation, pc, items, queue, acc, emit, handed, src, val, out, scope, boxed

vars == <<invocation, pc, items, queue, acc, emit, handed, src, val, out, scope, boxed>>

(***************************************************************************)
(* Bounds of the explored inputs.                                          *)
(***************************************************************************)
MaxClauses == 3

MaxVariants == 2

MaxHops == 2

(***************************************************************************)
(* Clauses, as token shapes.  kw is the leading identifier, paren tells    *)
(* whether a parenthesised binding group follows, args are the identifiers *)
(* bound inside it, ty the type of a typed binding ("" when the binding is *)
(* untyped) and body the expression before the `;` ("" when there is       *)
(* none).                                                                  *)
(***************************************************************************)
Clause(kw, paren, args, ty, body) ==
    [kw |-> kw, paren |-> paren, args |-> args, ty |-> ty, body |-> body]

\* disp (e, fmt) write!(fmt, "{:?}", e);
DispDebug == Clause("disp", TRUE, <<"e", "fmt">>, "", "write!(fmt, \"{:?}\", e)")

\* disp (_e, fmt) write!(fmt, "kaboom!");
DispLit == Clause("disp", TRUE, <<"_e", "fmt">>, "", "write!(fmt, \"kaboom!\")")

\* desc (_e) "kaboom!";
DescLit == Clause("desc", TRUE, <<"_e">>, "", "\"kaboom!\"")

\* desc (e) &**e;
DescDeref == Clause("desc", TRUE, <<"e">>, "", "&**e")

\* desc (e) e.description();
DescDelegate == Clause("desc", TRUE, <<"e">>, "", "e.description()")

\* cause (e) Some(&**e);
CauseSome == Clause("cause", TRUE, <<"e">>, "", "Some(&**e)")

\* cause;
CauseAuto == Clause("cause", FALSE, <<>>, "", "")

\* from (s: &'static str) s.into();
FromStr == Clause("from", TRUE, <<"s">>, "&'static str", "s.into()")

\* from (s: String) s.into();
FromString == Clause("from", TRUE, <<"s">>, "String", "s.into()")

\* desc ();
DescEmpty == Clause("desc", TRUE, <<>>, "", "")

\* disp (e) write!(fmt, "kaboom!");
DispOneArg == Clause("disp", TRUE, <<"e">>, "", "write!(fmt, \"kaboom!\")")

ClauseAlphabet ==
    {DispDebug, DispLit, DescLit, DescDeref, CauseSome, CauseAuto,
     FromStr, FromString, DescEmpty}

RECURSIVE SeqsUpTo(_, _)
SeqsUpTo(S, n) ==
    IF n = 0 THEN {<<>>}
    ELSE LET shorter == SeqsUpTo(S, n - 1)
         IN  shorter \cup {Append(s, x) : s \in shorter, x \in S}

Variant(name, ty, body) == [name |-> name, ty |-> ty, body |-> body]

\* The variants of the crate documentation and of the tests, and two
\* variants with a clause no rule recognizes.
SampleVariants ==
    {Variant("Io", "std::io::Error", <<CauseAuto>>),
     Variant("Kaboom", "Kaboom", <<DispDebug, DescLit>>),
     Variant("Message", "Cow<'static, str>", <<DescDeref, FromStr, FromString>>),
     Variant("Other", "Box<Error>", <<DescDelegate, CauseSome>>),
     Variant("Other", "String", <<DescDeref>>),
     Variant("Wat", "Box<Error>", <<DescDelegate>>),
     Variant("Plain", "std::io::Error", <<>>),
     Variant("Bad", "Kaboom", <<CauseAuto, DispOneArg>>)}

Invocation(attrs, pub, name, variants, commas) ==
    [attrs |-> attrs, pub |-> pub, err_name |-> name, variants |-> variants,
     commas |-> commas]

Headers ==
    {<<<<>>, FALSE, 0>>,
     <<<<"derive(Debug)">>, TRUE, 0>>,
     <<<<"derive(Debug)">>, FALSE, 1>>,
     <<<<"derive(Debug)", "allow(dead_code)">>, TRUE, 1>>}

\* The invocations explored: every clause block of at most MaxClauses
\* clauses on a single variant, and every list of at most MaxVariants sample
\* variants (the empty list included) under every header.
Invocations ==
    {Invocation(<<"derive(Debug)">>, TRUE, "LibError",
                <<Variant("Message", "Cow<'static, str>", b)>>, 0) :
        b \in SeqsUpTo(ClauseAlphabet, MaxClauses)}
    \cup
    {Invocation(h[1], h[2], "AppError", vs, h[3]) :
        h \in Headers, vs \in SeqsUpTo(SampleVariants, MaxVariants)}

(***************************************************************************)
(* Macro calls.                                                            *)
(***************************************************************************)
VarBodyCall(err_name, var_name, var_ty, edi_tr, ede_tr, ec_tr, disp, desc, cause, from, tail) ==
    [err_name |-> err_name, var_name |-> var_name, var_ty |-> var_ty,
     edi_tr |-> edi_tr, ede_tr |-> ede_tr, ec_tr |-> ec_tr,
     disp |-> disp, desc |-> desc, cause |-> cause, from |-> from,
     tail |-> tail]

EmitCall(err_name, var_name, var_ty, edi_tr, ede_tr, ec_tr, tail) ==
    [err_name |-> err_name, var_name |-> var_name, var_ty |-> var_ty,
     edi_tr |-> edi_tr, ede_tr |-> ede_tr, ec_tr |-> ec_tr, tail |-> tail]

NoVarBodyCall == VarBodyCall("", "", "", "", "", "", <<>>, <<>>, <<>>, <<>>, <<>>)

NoEmitCall == EmitCall("", "", "", "", "", "", <<>>)

NoPayload == [ty |-> "", text |-> "", desc |-> "", cause |-> <<>>]

NoVal == [var |-> "", payload |-> NoPayload]

NoOut == [op |-> "", res |-> <<>>]

NoBox == [box |-> NoPayload, desc |-> <<>>, hops |-> 0]


(***************************************************************************)
(* error_type!: both rules need one or more variants; they differ in the   *)
(* `pub` they match and re-emit.  The enum is emitted through              *)
(* error_type_as_item! and the invocation goes on to error_type_impl!      *)
(* without the trailing commas.                                            *)
(***************************************************************************)
BareVariants(variants) ==
    [i \in 1..Len(variants) |-> [name |-> variants[i].name, ty |-> variants[i].ty]]

\* Variation: the enum is emitted `pub` whichever rule matched.
EnumItemAlwaysPub(attrs, pub, err_name, variants) ==
    [item |-> "enum", attrs |-> attrs, pub |-> TRUE, name |-> err_name,
     variants |-> BareVariants(variants)]

EnumItem(attrs, pub, err_name, variants) ==
    [item |-> "enum", attrs |-> attrs, pub |-> pub, name |-> err_name,
     variants |-> BareVariants(variants)]

error_type_pub ==
    /\ pc = "error_type"
    /\ invocation.pub
    /\ Len(invocation.variants) >= 1
    /\ items' = Append(items, EnumItem(invocation.attrs, TRUE,
                                       invocation.err_name, invocation.variants))
    /\ pc' = "error_type_impl"
    /\ UNCHANGED <<scope, boxed, invocation, queue, acc, emit, handed, src, val, out>>

\* Variation: the non-pub rule takes no trailing comma.
error_type_priv_no_comma ==
    /\ pc = "error_type"
    /\ ~invocation.pub
    /\ invocation.commas = 0
    /\ Len(invocation.variants) >= 1
    /\ items' = Append(items, EnumItem(invocation.attrs, FALSE,
                                       invocation.err_name, invocation.variants))
    /\ pc' = "error_type_impl"
    /\ UNCHANGED <<scope, boxed, invocation, queue, acc, emit, handed, src, val, out>>

error_type_priv ==
    /\ pc = "error_type"
    /\ ~invocation.pub
    /\ Len(invocation.variants) >= 1
    /\ items' = Append(items, EnumItem(invocation.attrs, FALSE,
                                       invocation.err_name, invocation.variants))
    /\ pc' = "error_type_impl"
    /\ UNCHANGED <<scope, boxed, invocation, queue, acc, emit, handed, src, val, out>>

\* No rule of error_type! matches an empty variant list.
error_type_no_rule ==
    /\ pc = "error_type"
    /\ Len(invocation.variants) = 0
    /\ pc' = "failed"
    /\ UNCHANGED <<scope, boxed, invocation, items, queue, acc, emit, handed, src, val, out>>

(***************************************************************************)
(* error_type_impl!: one bare-payload From per variant, the enum-wide      *)
(* Display, the three capability traits, the enum-wide Error, and one      *)
(* error_type_var_body! call per variant, each started with the four       *)
(* slots unset.                                                            *)
(***************************************************************************)
FromItem(ty, err_name, var_name, arg, expr) ==
    [item |-> "impl From", ty |-> ty, for |-> err_name, var |-> var_name,
     arg |-> arg, expr |-> expr]

BareFrom(err_name, v) == FromItem(v.ty, err_name, v.name, "value", "value")

Arms(variants) == [i \in 1..Len(variants) |-> variants[i].name]

DisplayItem(err_name, variants) ==
    [item |-> "impl Display", for |-> err_name, arms |-> Arms(variants)]

ErrorItem(err_name, variants) ==
    [item |-> "impl Error", for |-> err_name, arms |-> Arms(variants)]

TraitItem(name, method) == [item |-> "trait", name |-> name, method |-> method]

\* Variation: the cause slot starts as the forwarding cause instead of unset.
InitialCallAutoCause(err_name, v) ==
    VarBodyCall(err_name, v.name, v.ty,
                "ErrorDisplay", "ErrorDescription", "ErrorCause",
                <<>>, <<>>, <<<<"e">>, "::std::error::Error::cause(e)">>, <<>>, v.body)

InitialCall(err_name, v) ==
    VarBodyCall(err_name, v.name, v.ty,
                "ErrorDisplay", "ErrorDescription", "ErrorCause",
                <<>>, <<>>, <<>>, <<>>, v.body)

\* Variation: the bare-payload conversion is emitted for the first variant only.
ImplItemsFirstOnly(err_name, variants) ==
    <<BareFrom(err_name, variants[1]),
      DisplayItem(err_name, variants),
      TraitItem("ErrorDisplay", "error_fmt"),
      TraitItem("ErrorDescription", "error_desc"),
      TraitItem("ErrorCause", "error_cause"),
      ErrorItem(err_name, variants)>>

ImplItems(err_name, variants) ==
    [i \in 1..Len(variants) |-> BareFrom(err_name, variants[i])]
    \o <<DisplayItem(err_name, variants),
         TraitItem("ErrorDisplay", "error_fmt"),
         TraitItem("ErrorDescription", "error_desc"),
         TraitItem("ErrorCause", "error_cause"),
         ErrorItem(err_name, variants)>>

\* Variation: a variant's call also receives the clauses of the variant
\* declared before it.
VarBodyCallsLeaky(err_name, variants) ==
    [i \in 1..Len(variants) |->
        IF i = 1 THEN InitialCall(err_name, variants[i])
        ELSE [InitialCall(err_name, variants[i]) EXCEPT
                 !.tail = variants[i - 1].body \o @]]

VarBodyCalls(err_name, variants) ==
    [i \in 1..Len(variants) |-> InitialCall(err_name, variants[i])]

error_type_impl ==
    /\ pc = "error_type_impl"
    /\ items' = items \o ImplItems(invocation.err_name, invocation.variants)
    /\ LET calls == VarBodyCalls(invocation.err_name, invocation.variants)
       IN  /\ acc' = Head(calls)
           /\ queue' = Tail(calls)
    /\ pc' = "var_body"
    /\ UNCHANGED <<scope, boxed, invocation, emit, handed, src, val, out>>

(***************************************************************************)
(* error_type_var_body!: the rules, tried in the order they are written.   *)
(* Each matcher is the shape of the clause at the head of the block.       *)
(***************************************************************************)
\* Variation: the disp rule takes any parenthesised binding list.
IsDispLoose(c) == c.kw = "disp" /\ c.paren /\ c.ty = "" /\ c.body # ""

IsDisp(c) ==
    c.kw = "disp" /\ c.paren /\ Len(c.args) = 2 /\ c.ty = "" /\ c.body # ""

\* Variation: the desc rule also takes `desc ();`.
IsDescLoose(c) == c.kw = "desc" /\ c.paren /\ Len(c.args) <= 1 /\ c.ty = ""

IsDesc(c) ==
    c.kw = "desc" /\ c.paren /\ Len(c.args) = 1 /\ c.ty = "" /\ c.body # ""

IsCause(c) ==
    c.kw = "cause" /\ c.paren /\ Len(c.args) = 1 /\ c.ty = "" /\ c.body # ""

IsCauseAuto(c) ==
    c.kw = "cause" /\ ~c.paren /\ c.args = <<>> /\ c.ty = "" /\ c.body = ""

IsFrom(c) ==
    c.kw = "from" /\ c.paren /\ Len(c.args) = 1 /\ c.ty # "" /\ c.body # ""

Recognized(c) == IsDisp(c) \/ IsDesc(c) \/ IsCause(c) \/ IsCauseAuto(c) \/ IsFrom(c)

\* `(($cl_arg, $cl_fmt) $cl_body)` and `(($cl_arg) $cl_body)`
Slot(c) == <<c.args, c.body>>

\* Variation: `cause;` stores a cause that returns the payload itself.
AutoCauseSlotSelf == <<<<"e">>, "Some(&**e)">>

\* `((e) ::std::error::Error::cause(e))`
AutoCauseSlot == <<<<"e">>, "::std::error::Error::cause(e)">>

\* `($cl_arg: $cl_ty) $cl_body`
Conversion(c) == <<c.args[1], c.ty, c.body>>

\* `(($cl_arg: $cl_ty) $cl_body)`
FromFirst(c) == <<Conversion(c)>>

\* Variation: the later from clause replaces the conversions accumulated so far.
FromNotFirstOverwrite(from, c) == <<Conversion(c)>>

\* Variation: the later from clause is added after the conversions
\* accumulated so far.
FromNotFirstAppend(from, c) == from \o <<Conversion(c)>>

\* `(($cl_arg: $cl_ty) $cl_body; $($from)*)`
FromNotFirst(from, c) == <<Conversion(c)>> \o from

\* Variation: a disp clause is stored only while the display slot is unset.
DispRuleKeepFirst(a) ==
    [a EXCEPT !.disp = IF a.disp = <<>> THEN Slot(Head(a.tail)) ELSE a.disp,
              !.tail = Tail(a.tail)]

DispRule(a) == [a EXCEPT !.disp = Slot(Head(a.tail)), !.tail = Tail(a.tail)]

\* Variation: a desc clause is stored only while the description slot is unset.
DescRuleKeepFirst(a) ==
    [a EXCEPT !.desc = IF a.desc = <<>> THEN Slot(Head(a.tail)) ELSE a.desc,
              !.tail = Tail(a.tail)]


DescRule(a) == [a EXCEPT !.desc = Slot(Head(a.tail)), !.tail = Tail(a.tail)]

\* Variation: the cause rule recurses on the whole block instead of its tail.
CauseRuleWholeBlock(a) == [a EXCEPT !.cause = Slot(Head(a.tail))]


CauseRule(a) == [a EXCEPT !.cause = Slot(Head(a.tail)), !.tail = Tail(a.tail)]

\* Variation: `cause;` also puts the description slot back to unset.
CauseAutoRuleResetDesc(a) ==
    [a EXCEPT !.cause = AutoCauseSlot, !.desc = <<>>, !.tail = Tail(a.tail)]


CauseAutoRule(a) == [a EXCEPT !.cause = AutoCauseSlot, !.tail = Tail(a.tail)]

FromFirstRule(a) == [a EXCEPT !.from = FromFirst(Head(a.tail)), !.tail = Tail(a.tail)]

FromNotFirstRule(a) ==
    [a EXCEPT !.from = FromNotFirst(a.from, Head(a.tail)), !.tail = Tail(a.tail)]

\* `disp $disp, desc $desc, cause $cause, from $from`
BaseRule(a) ==
    EmitCall(a.err_name, a.var_name, a.var_ty, a.edi_tr, a.ede_tr, a.ec_tr,
             <<<<"disp", a.disp>>, <<"desc", a.desc>>,
               <<"cause", a.cause>>, <<"from", a.from>>>>)

\* What the base case hands to error_type_var_body_emit!.
ClauseSet(a) ==
    [err_name |-> a.err_name, var_name |-> a.var_name, var_ty |-> a.var_ty,
     disp |-> a.disp, desc |-> a.desc, cause |-> a.cause, from |-> a.from]

var_body_base ==
    /\ pc = "var_body"
    /\ acc.tail = <<>>
    /\ emit' = BaseRule(acc)
    /\ handed' = Append(handed, ClauseSet(acc))
    /\ pc' = "var_body_emit"
    /\ UNCHANGED <<scope, boxed, invocation, items, queue, acc, src, val, out>>

var_body_disp ==
    /\ pc = "var_body"
    /\ acc.tail # <<>>
    /\ IsDisp(Head(acc.tail))
    /\ acc' = DispRule(acc)
    /\ UNCHANGED <<scope, boxed, invocation, pc, items, queue, emit, handed, src, val, out>>

var_body_desc ==
    /\ pc = "var_body"
    /\ acc.tail # <<>>
    /\ IsDesc(Head(acc.tail))
    /\ acc' = DescRule(acc)
    /\ UNCHANGED <<scope, boxed, invocation, pc, items, queue, emit, handed, src, val, out>>

var_body_cause ==
    /\ pc = "var_body"
    /\ acc.tail # <<>>
    /\ IsCause(Head(acc.tail))
    /\ acc' = CauseRule(acc)
    /\ UNCHANGED <<scope, boxed, invocation, pc, items, queue, emit, handed, src, val, out>>

var_body_cause_auto ==
    /\ pc = "var_body"
    /\ acc.tail # <<>>
    /\ IsCauseAuto(Head(acc.tail))
    /\ acc' = CauseAutoRule(acc)
    /\ UNCHANGED <<scope, boxed, invocation, pc, items, queue, emit, handed, src, val, out>>

var_body_from_first ==
    /\ pc = "var_body"
    /\ acc.tail # <<>>
    /\ IsFrom(Head(acc.tail))
    /\ acc.from = <<>>
    /\ acc' = FromFirstRule(acc)
    /\ UNCHANGED <<scope, boxed, invocation, pc, items, queue, emit, handed, src, val, out>>

var_body_from_not_first ==
    /\ pc = "var_body"
    /\ acc.tail # <<>>
    /\ IsFrom(Head(acc.tail))
    /\ acc.from # <<>>
    /\ acc' = FromNotFirstRule(acc)
    /\ UNCHANGED <<scope, boxed, invocation, pc, items, queue, emit, handed, src, val, out>>

\* No rule matches the head of the block: the expansion is an error.
var_body_no_rule ==
    /\ pc = "var_body"
    /\ acc.tail # <<>>
    /\ ~Recognized(Head(acc.tail))
    /\ pc' = "failed"
    /\ UNCHANGED <<scope, boxed, invocation, items, queue, acc, emit, handed, src, val, out>>

(***************************************************************************)
(* error_type_var_body_emit!: one rule per `kw slot` pair at the head of   *)
(* its input, each emitting its items and recursing on the tail.  An       *)
(* emitted capability implementation is keyed by the pair                  *)
(* (&err_name, &var_ty); its body is the bindings made from self.1 (and    *)
(* fmt) followed by the expression.                                        *)
(***************************************************************************)
CapImpl(trait, err_name, var_ty, binds, expr) ==
    [item |-> "impl", trait |-> trait, for |-> <<err_name, var_ty>>,
     binds |-> binds, expr |-> expr]

EmitHeadIs(e, kw) == e.tail # <<>> /\ Head(e.tail)[1] = kw

\* A slot of the shape `(($a, ...) $expr)` with n bound identifiers.
IsCustom(slot, n) == Len(slot) = 2 /\ Len(slot[1]) = n

\* `disp ()`
DispDefaultImpl(e) ==
    CapImpl(e.edi_tr, e.err_name, e.var_ty, <<>>,
            "::std::fmt::Display::fmt(self.1, fmt)")

\* `disp (($disp_arg, $disp_fmt) $disp_expr)`
DispCustomImpl(e, slot) ==
    CapImpl(e.edi_tr, e.err_name, e.var_ty,
            <<<<slot[1][1], "self.1">>, <<slot[1][2], "fmt">>>>, slot[2])

\* `desc ()`
DescDefaultImpl(e) ==
    CapImpl(e.ede_tr, e.err_name, e.var_ty, <<>>,
            "::std::error::Error::description(self.1)")

\* Variation: the custom description writes the payload's Display instead of
\* evaluating the clause's expression.
DescCustomImplDisplay(e, slot) ==
    CapImpl(e.ede_tr, e.err_name, e.var_ty, <<<<slot[1][1], "self.1">>>>,
            "::std::fmt::Display::fmt(self.1, fmt)")

\* `desc (($desc_arg) $desc_expr)`
DescCustomImpl(e, slot) ==
    CapImpl(e.ede_tr, e.err_name, e.var_ty, <<<<slot[1][1], "self.1">>>>, slot[2])

\* `cause ()`
\* Variation: `cause ()` emits nothing for the cause trait; its item goes to
\* the description trait.
CauseNoneImplAsDescription(e) == CapImpl(e.ede_tr, e.err_name, e.var_ty, <<>>, "None")


CauseNoneImpl(e) == CapImpl(e.ec_tr, e.err_name, e.var_ty, <<>>, "None")

\* `cause (($cl_arg) $cl_expr)`
CauseCustomImpl(e, slot) ==
    CapImpl(e.ec_tr, e.err_name, e.var_ty, <<<<slot[1][1], "self.1">>>>, slot[2])

\* Variation: only the first conversion of the list is emitted.
FromImplsHeadOnly(e, slot) ==
    IF slot = <<>> THEN <<>>
    ELSE <<FromItem(slot[1][2], e.err_name, e.var_name, slot[1][1], slot[1][3])>>

\* Variation: a conversion whose source type already occurred in the list is
\* left out.
FromImplsDedup(e, slot) ==
    LET first(i) == \A j \in 1..(i - 1) : slot[j][2] # slot[i][2]
        idx == SelectSeq([i \in 1..Len(slot) |-> i], first)
    IN  [n \in 1..Len(idx) |->
            FromItem(slot[idx[n]][2], e.err_name, e.var_name, slot[idx[n]][1], slot[idx[n]][3])]


\* `from ($(($cl_arg: $cl_ty) $cl_expr);*)`
FromImpls(e, slot) ==
    [i \in 1..Len(slot) |->
        FromItem(slot[i][2], e.err_name, e.var_name, slot[i][1], slot[i][3])]

EmitStep(newItems) ==
    /\ items' = items \o newItems
    /\ emit' = [emit EXCEPT !.tail = Tail(emit.tail)]
    /\ UNCHANGED <<scope, boxed, invocation, pc, queue, acc, handed, src, val, out>>

emit_disp_default ==
    /\ pc = "var_body_emit"
    /\ EmitHeadIs(emit, "disp")
    /\ Head(emit.tail)[2] = <<>>
    /\ EmitStep(<<DispDefaultImpl(emit)>>)

emit_disp_custom ==
    /\ pc = "var_body_emit"
    /\ EmitHeadIs(emit, "disp")
    /\ IsCustom(Head(emit.tail)[2], 2)
    /\ EmitStep(<<DispCustomImpl(emit, Head(emit.tail)[2])>>)

emit_desc_default ==
    /\ pc = "var_body_emit"
    /\ EmitHeadIs(emit, "desc")
    /\ Head(emit.tail)[2] = <<>>
    /\ EmitStep(<<DescDefaultImpl(emit)>>)

emit_desc_custom ==
    /\ pc = "var_body_emit"
    /\ EmitHeadIs(emit, "desc")
    /\ IsCustom(Head(emit.tail)[2], 1)
    /\ EmitStep(<<DescCustomImpl(emit, Head(emit.tail)[2])>>)

emit_cause_none ==
    /\ pc = "var_body_emit"
    /\ EmitHeadIs(emit, "cause")
    /\ Head(emit.tail)[2] = <<>>
    /\ EmitStep(<<CauseNoneImpl(emit)>>)

emit_cause_custom ==
    /\ pc = "var_body_emit"
    /\ EmitHeadIs(emit, "cause")
    /\ IsCustom(Head(emit.tail)[2], 1)
    /\ EmitStep(<<CauseCustomImpl(emit, Head(emit.tail)[2])>>)

emit_from ==
    /\ pc = "var_body_emit"
    /\ EmitHeadIs(emit, "from")
    /\ EmitStep(FromImpls(emit, Head(emit.tail)[2]))

\* Nothing left: this variant is done; the expander goes on to the next
\* error_type_var_body! call, if any.
emit_done ==
    /\ pc = "var_body_emit"
    /\ emit.tail = <<>>
    /\ IF queue # <<>>
       THEN /\ acc' = Head(queue)
            /\ queue' = Tail(queue)
            /\ pc' = "var_body"
       ELSE /\ pc' = "expanded"
            /\ UNCHANGED <<acc, queue>>
    /\ UNCHANGED <<scope, boxed, invocation, items, emit, handed, src, val, out>>

(***************************************************************************)
(* The expansion of a whole invocation as a function, used for the items   *)
(* that an earlier error_type! invocation has left in the same scope.      *)
(***************************************************************************)
RECURSIVE Accumulate(_)
\* error_type_var_body! run to its base case: <<the final call>>, or <<>>
\* when some step matches no rule.
Accumulate(a) ==
    IF a.tail = <<>> THEN <<a>>
    ELSE LET c == Head(a.tail)
         IN  IF IsDisp(c) THEN Accumulate(DispRule(a))
             ELSE IF IsDesc(c) THEN Accumulate(DescRule(a))
             ELSE IF IsCause(c) THEN Accumulate(CauseRule(a))
             ELSE IF IsCauseAuto(c) THEN Accumulate(CauseAutoRule(a))
             ELSE IF IsFrom(c) /\ a.from = <<>> THEN Accumulate(FromFirstRule(a))
             ELSE IF IsFrom(c) THEN Accumulate(FromNotFirstRule(a))
             ELSE <<>>

RECURSIVE EmitAll(_)
\* error_type_var_body_emit! run to `Nothing left`: the items it emits.
EmitAll(e) ==
    IF e.tail = <<>> THEN <<>>
    ELSE LET kw == Head(e.tail)[1]
             slot == Head(e.tail)[2]
             rest == EmitAll([e EXCEPT !.tail = Tail(e.tail)])
         IN  IF kw = "disp" /\ slot = <<>> THEN <<DispDefaultImpl(e)>> \o rest
             ELSE IF kw = "disp" THEN <<DispCustomImpl(e, slot)>> \o rest
             ELSE IF kw = "desc" /\ slot = <<>> THEN <<DescDefaultImpl(e)>> \o rest
             ELSE IF kw = "desc" THEN <<DescCustomImpl(e, slot)>> \o rest
             ELSE IF kw = "cause" /\ slot = <<>> THEN <<CauseNoneImpl(e)>> \o rest
             ELSE IF kw = "cause" THEN <<CauseCustomImpl(e, slot)>> \o rest
             ELSE FromImpls(e, slot) \o rest

RECURSIVE VariantItems(_, _, _)
\* The items of the error_type_var_body! calls of variants i, i+1, ...
VariantItems(err_name, variants, i) ==
    IF i > Len(variants) THEN <<>>
    ELSE EmitAll(BaseRule(Accumulate(InitialCall(err_name, variants[i]))[1]))
         \o VariantItems(err_name, variants, i + 1)

\* The items of an invocation that expands without error.
Expansion(inv) ==
    <<EnumItem(inv.attrs, inv.pub, inv.err_name, inv.variants)>>
    \o ImplItems(inv.err_name, inv.variants)
    \o VariantItems(inv.err_name, inv.variants, 1)

\* The invocation of tests/hygiene.rs.
EarlierInvocation ==
    Invocation(<<"derive(Debug)">>, FALSE, "SomeError",
               <<Variant("Wat", "Box<Error>", <<DescDelegate>>)>>, 0)

\* What the scope of the invocation already holds: nothing, or the items of
\* an earlier invocation for another enum.
Scopes == {<<>>, Expansion(EarlierInvocation)}

Init ==
    /\ invocation \in Invocations
    /\ scope \in Scopes
    /\ pc = "error_type"
    /\ items = <<>>
    /\ queue = <<>>
    /\ acc = NoVarBodyCall
    /\ emit = NoEmitCall
    /\ handed = <<>>
    /\ src = NoPayload
    /\ val = NoVal
    /\ out = NoOut
    /\ boxed = NoBox

(***************************************************************************)
(* The compiler accepts the expanded items when no two implementations     *)
(* overlap and the enum's variant names are distinct.                      *)
(***************************************************************************)
ImplKey(it) ==
    IF it.item = "impl From" THEN <<"From", it.ty, it.for>>
    ELSE IF it.item = "impl" THEN <<it.trait, it.for[1], it.for[2]>>
    ELSE IF it.item = "trait" THEN <<"trait", it.name, "">>
    ELSE IF it.item = "enum" THEN <<"enum", it.name, "">>
    ELSE <<it.item, it.for, "">>

Coherent(its) ==
    /\ \A i, j \in DOMAIN its : i # j => ImplKey(its[i]) # ImplKey(its[j])
    /\ \A i \in DOMAIN its :
          its[i].item = "enum" =>
              \A m, n \in DOMAIN its[i].variants :
                  m # n => its[i].variants[m].name # its[i].variants[n].name

rustc_accept ==
    /\ pc = "expanded"
    /\ Coherent(scope \o items)
    /\ pc' = "accepted"
    /\ UNCHANGED <<scope, boxed, invocation, items, queue, acc, emit, handed, src, val, out>>

rustc_reject ==
    /\ pc = "expanded"
    /\ ~Coherent(scope \o items)
    /\ pc' = "rejected"
    /\ UNCHANGED <<scope, boxed, invocation, items, queue, acc, emit, handed, src, val, out>>

(***************************************************************************)
(* Running the generated code.  A payload value carries what its own       *)
(* Display writes (text), what its own Error::description and Error::cause *)
(* return (desc, cause); cause is <<>> for None and <<x>> for Some(x).     *)
(***************************************************************************)
Payload(ty, text, desc, cause) ==
    [ty |-> ty, text |-> text, desc |-> desc, cause |-> cause]

Underlying == Payload("Underlying", "disk full", "root cause", <<>>)

Types ==
    {"std::io::Error", "Kaboom", "Cow<'static, str>", "Box<Error>", "String",
     "&'static str"}

Inputs ==
    {Payload(t, "Hello, World!", "oh no!", c) : t \in Types, c \in {<<>>, <<Underlying>>}}

\* The environment of a generated function body: the function's own names,
\* then each `let name = source;` in order.
RECURSIVE Bind(_, _)
Bind(env, binds) ==
    IF binds = <<>> THEN env
    ELSE LET b == Head(binds)
             bound == [n \in DOMAIN env \cup {b[1]} |->
                          IF n = b[1] THEN env[b[2]] ELSE env[n]]
         IN  Bind(bound, Tail(binds))

\* The expressions of the explored clauses and of the default rules; want is
\* the type the context expects (the payload type of the variant being
\* constructed), used by `into`.
Eval(expr, env, want) ==
    CASE expr = "value" -> env["value"]
      [] expr = "s.into()" -> [env["s"] EXCEPT !.ty = want]
      [] expr = "::std::fmt::Display::fmt(self.1, fmt)" -> <<env["self.1"].text>>
      [] expr = "write!(fmt, \"{:?}\", e)" -> <<"\"", env["e"].text, "\"">>
      [] expr = "write!(fmt, \"kaboom!\")" -> <<"kaboom!">>
      [] expr = "::std::error::Error::description(self.1)" -> <<env["self.1"].desc>>
      [] expr = "\"kaboom!\"" -> <<"kaboom!">>
      [] expr = "&**e" -> <<env["e"].text>>
      [] expr = "e.description()" -> <<env["e"].desc>>
      [] expr = "None" -> <<>>
      [] expr = "::std::error::Error::cause(e)" -> env["e"].cause
      [] expr = "Some(&**e)" -> <<env["e"]>>

TheEnum(its) == its[CHOOSE i \in DOMAIN its : its[i].item = "enum"]

\* The declared payload type of a variant of the emitted enum.
VariantTy(its, var_name) ==
    LET vs == TheEnum(its).variants
    IN  vs[CHOOSE i \in DOMAIN vs : vs[i].name = var_name].ty

\* impl From<ty> for err_name { fn from(arg: ty) -> err_name { err_name::var(expr) } }
ApplyFrom(its, impl, x) ==
    [var |-> impl.var,
     payload |-> Eval(impl.expr, (impl.arg :> x), VariantTy(its, impl.var))]

\* Variation: the implementation is looked up by enum only, whatever the
\* payload type.
ResolveAnyPayload(its, trait, err_name, var_ty) ==
    its[CHOOSE i \in DOMAIN its :
            /\ its[i].item = "impl"
            /\ its[i].trait = trait
            /\ its[i].for[1] = err_name]

\* `(self, v).method()` with v of the variant's declared type: the
\* implementation of the capability trait for (&err_name, &var_ty).
Resolve(its, trait, err_name, var_ty) ==
    its[CHOOSE i \in DOMAIN its :
            /\ its[i].item = "impl"
            /\ its[i].trait = trait
            /\ its[i].for = <<err_name, var_ty>>]

\* The names a capability method's body starts with: error_fmt(&self, fmt),
\* error_desc(&self), error_cause(&self).
Params(trait, payload) ==
    IF trait = "ErrorDisplay"
    THEN ("self.1" :> payload) @@ ("fmt" :> "Formatter")
    ELSE ("self.1" :> payload)

\* The match arm of the value's variant, then the body of the resolved
\* capability implementation run on self.1 = the payload.
Dispatch(its, trait, v) ==
    LET err_name == TheEnum(its).name
        impl == Resolve(its, trait, err_name, VariantTy(its, v.var))
        env == Bind(Params(trait, v.payload), impl.binds)
    IN  Eval(impl.expr, env, "")

From_from ==
    /\ pc = "accepted"
    /\ \E x \in Inputs :
          \E i \in DOMAIN items :
              /\ items[i].item = "impl From"
              /\ items[i].ty = x.ty
              /\ src' = x
              /\ val' = ApplyFrom(items, items[i], x)
    /\ out' = NoOut
    /\ UNCHANGED <<scope, boxed, invocation, pc, items, queue, acc, emit, handed>>

Display_fmt ==
    /\ pc = "accepted"
    /\ val # NoVal
    /\ out' = [op |-> "fmt", res |-> Dispatch(items, "ErrorDisplay", val)]
    /\ UNCHANGED <<scope, boxed, invocation, pc, items, queue, acc, emit, handed, src, val>>

Error_description ==
    /\ pc = "accepted"
    /\ val # NoVal
    /\ out' = [op |-> "description", res |-> Dispatch(items, "ErrorDescription", val)]
    /\ UNCHANGED <<scope, boxed, invocation, pc, items, queue, acc, emit, handed, src, val>>

Error_cause ==
    /\ pc = "accepted"
    /\ val # NoVal
    /\ out' = [op |-> "cause", res |-> Dispatch(items, "ErrorCause", val)]
    /\ UNCHANGED <<scope, boxed, invocation, pc, items, queue, acc, emit, handed, src, val>>

RECURSIVE Join(_)
\* The string written by a sequence of writes.
Join(parts) == IF parts = <<>> THEN "" ELSE Head(parts) \o Join(Tail(parts))

\* `let e: Box<Error> = From::from(e);` on a value of the enum: the box's
\* Display, description and cause are those of the boxed value.
BoxOf(its, v) ==
    Payload("Box<Error>",
            Join(Dispatch(its, "ErrorDisplay", v)),
            Join(Dispatch(its, "ErrorDescription", v)),
            Dispatch(its, "ErrorCause", v))

HasFrom(its, ty) == \E i \in DOMAIN its : its[i].item = "impl From" /\ its[i].ty = ty

\* Boxing the current value as a generic error, when the enum can take the
\* box back; the box remembers the description of the value it was made of.
Box_from ==
    /\ pc = "accepted"
    /\ val # NoVal
    /\ boxed.hops < MaxHops
    /\ HasFrom(items, "Box<Error>")
    /\ boxed' = [box |-> BoxOf(items, val),
                 desc |-> Dispatch(items, "ErrorDescription", val),
                 hops |-> boxed.hops + 1]
    /\ UNCHANGED <<scope, invocation, pc, items, queue, acc, emit, handed, src, val, out>>

\* `err!(e)` on the box: From::from on a Box<Error>.
From_box ==
    /\ pc = "accepted"
    /\ boxed.box # NoPayload
    /\ \E i \in DOMAIN items :
          /\ items[i].item = "impl From"
          /\ items[i].ty = boxed.box.ty
          /\ src' = boxed.box
          /\ val' = ApplyFrom(items, items[i], boxed.box)
    /\ out' = NoOut
    /\ UNCHANGED <<scope, boxed, invocation, pc, items, queue, acc, emit, handed>>

Next ==
    \/ error_type_pub
    \/ error_type_priv
    \/ error_type_no_rule
    \/ error_type_impl
    \/ var_body_base
    \/ var_body_disp
    \/ var_body_desc
    \/ var_body_cause
    \/ var_body_cause_auto
    \/ var_body_from_first
    \/ var_body_from_not_first
    \/ var_body_no_rule
    \/ emit_disp_default
    \/ emit_disp_custom
    \/ emit_desc_default
    \/ emit_desc_custom
    \/ emit_cause_none
    \/ emit_cause_custom
    \/ emit_from
    \/ emit_done
    \/ rustc_accept
    \/ rustc_reject
    \/ From_from
    \/ Display_fmt
    \/ Error_description
    \/ Error_cause
    \/ Box_from
    \/ From_box

\* The steps of the macro expander.
ExpandStep ==
    \/ error_type_pub
    \/ error_type_priv
    \/ error_type_no_rule
    \/ error_type_impl
    \/ var_body_base
    \/ var_body_disp
    \/ var_body_desc
    \/ var_body_cause
    \/ var_body_cause_auto
    \/ var_body_from_first
    \/ var_body_from_not_first
    \/ var_body_no_rule
    \/ emit_disp_default
    \/ emit_disp_custom
    \/ emit_desc_default
    \/ emit_desc_custom
    \/ emit_cause_none
    \/ emit_cause_custom
    \/ emit_from
    \/ emit_done

Spec == Init /\ [][Next]_vars

\* The expander does not stop while a macro call is left to expand.
FairSpec == Init /\ [][Next]_vars /\ WF_vars(ExpandStep)

(***************************************************************************)
(* The whole recursion of error_type_var_body! on one call, as a function: *)
(* <<the ClauseSet handed to the emitter>>, or <<>> when some step matches *)
(* no rule.                                                                *)
(***************************************************************************)
RECURSIVE Run(_)
Run(a) ==
    IF a.tail = <<>> THEN <<ClauseSet(a)>>
    ELSE LET c == Head(a.tail)
         IN  IF IsDisp(c) THEN Run(DispRule(a))
             ELSE IF IsDesc(c) THEN Run(DescRule(a))
             ELSE IF IsCause(c) THEN Run(CauseRule(a))
             ELSE IF IsCauseAuto(c) THEN Run(CauseAutoRule(a))
             ELSE IF IsFrom(c) /\ a.from = <<>> THEN Run(FromFirstRule(a))
             ELSE IF IsFrom(c) THEN Run(FromNotFirstRule(a))
             ELSE <<>>

(***************************************************************************)
(* Vocabulary of the properties: the clause kinds as the documentation     *)
(* writes them, and the position of a variant's items in the expansion.    *)
(***************************************************************************)
KindOf(c) ==
    IF c.kw = "disp" /\ c.paren /\ Len(c.args) = 2 /\ c.ty = "" /\ c.body # "" THEN "disp"
    ELSE IF c.kw = "desc" /\ c.paren /\ Len(c.args) = 1 /\ c.ty = "" /\ c.body # "" THEN "desc"
    ELSE IF c.kw = "cause" /\ c.paren /\ Len(c.args) = 1 /\ c.ty = "" /\ c.body # "" THEN "cause"
    ELSE IF c.kw = "cause" /\ ~c.paren /\ c.args = <<>> /\ c.ty = "" /\ c.body = "" THEN "cause;"
    ELSE IF c.kw = "from" /\ c.paren /\ Len(c.args) = 1 /\ c.ty # "" /\ c.body # "" THEN "from"
    ELSE "unrecognized"

\* The slot a clause is about: both cause forms are about the cause slot.
SlotOf(c) == IF KindOf(c) = "cause;" THEN "cause" ELSE KindOf(c)

Positions(b, slot) == {k \in DOMAIN b : SlotOf(b[k]) = slot}

Count(b, slot) == Cardinality(Positions(b, slot))

AllRecognized(b) == Positions(b, "unrecognized") = {}

Max(S) == CHOOSE m \in S : \A k \in S : k <= m

Range(f) == {f[k] : k \in DOMAIN f}

Occurrences(s, x) == Cardinality({k \in DOMAIN s : s[k] = x})

SameBag(s, t) ==
    /\ Len(s) = Len(t)
    /\ \A x \in Range(s) \cup Range(t) : Occurrences(s, x) = Occurrences(t, x)

Perms(b) ==
    {[k \in DOMAIN b |-> b[f[k]]] :
        f \in {g \in [DOMAIN b -> DOMAIN b] : \A m, n \in DOMAIN b : g[m] = g[n] => m = n}}

Body(i) == invocation.variants[i].body

NumVariants == Len(invocation.variants)

\* The emitter has finished variant i.
Finished(i) ==
    /\ i \in DOMAIN handed
    /\ i < Len(handed) \/ pc # "var_body_emit" \/ emit.tail = <<>>

RECURSIVE ItemsBefore(_)
\* Number of items emitted before those of variant i's emitter: the enum,
\* the bare conversions, the five enum-wide items, and three capability
\* implementations plus one conversion per from clause for each earlier variant.
ItemsBefore(i) ==
    IF i = 1 THEN 1 + NumVariants + 5
    ELSE ItemsBefore(i - 1) + 3 + Count(Body(i - 1), "from")

\* The body of an emitted capability implementation run on a payload.
RunBody(impl, p) == Eval(impl.expr, Bind(Params(impl.trait, p), impl.binds), "")

(***************************************************************************)
(* C1  Order independence.  For a clause block made of at most one disp,   *)
(* at most one desc, at most one cause-kind clause and any number of from  *)
(* clauses, the accumulator run on every permutation of the block hands    *)
(* the emitter the same display, description and cause slots and the same  *)
(* conversions, compared as a bag, as the ClauseSet handed over for the    *)
(* block as written.                                                       *)
(***************************************************************************)
C1_Block(b) ==
    /\ AllRecognized(b)
    /\ Count(b, "disp") <= 1
    /\ Count(b, "desc") <= 1
    /\ Count(b, "cause") <= 1

C1_SameClauseSet(r, h) ==
    /\ r.disp = h.disp
    /\ r.desc = h.desc
    /\ r.cause = h.cause
    /\ SameBag(r.from, h.from)

C1_OrderIndependence ==
    \A i \in DOMAIN handed :
        C1_Block(Body(i)) =>
            \A q \in Perms(Body(i)) :
                LET r == Run(InitialCall(invocation.err_name,
                                         [invocation.variants[i] EXCEPT !.body = q]))
                IN  /\ r # <<>>
                    /\ C1_SameClauseSet(r[1], handed[i])

\* A block of two from clauses around a disp clause has been resolved.
C1_Witness ==
    /\ pc = "accepted"
    /\ \E i \in DOMAIN handed :
          /\ C1_Block(Body(i))
          /\ Len(Body(i)) = 3
          /\ KindOf(Body(i)[1]) = "from"
          /\ KindOf(Body(i)[2]) = "disp"
          /\ KindOf(Body(i)[3]) = "from"
          /\ Body(i)[1] # Body(i)[3]
          /\ Len(handed[i].from) = 2

(***************************************************************************)
(* C2  Duplicate clauses.  As claimed: a block with a second disp, desc or *)
(* cause-kind clause never reaches the emit step.                          *)
(***************************************************************************)
C2_HasDuplicate(b) ==
    Count(b, "disp") >= 2 \/ Count(b, "desc") >= 2 \/ Count(b, "cause") >= 2

C2_Written(c) ==
    IF KindOf(c) = "cause;" THEN <<<<"e">>, "::std::error::Error::cause(e)">>
    ELSE <<c.args, c.body>>

C2_Last(b, slot) ==
    IF Positions(b, slot) = {} THEN <<>>
    ELSE C2_Written(b[Max(Positions(b, slot))])

C3_FromItems(var_name) ==
    {k \in DOMAIN items : items[k].item = "impl From" /\ items[k].var = var_name}

C3_Named(var_name) == {j \in 1..NumVariants : invocation.variants[j].name = var_name}

C3_Defaults ==
    \A i \in 1..NumVariants :
        Finished(i) =>
            LET b == Body(i)
                base == ItemsBefore(i)
                key == <<invocation.err_name, invocation.variants[i].ty>>
            IN  /\ Len(items) >= base + 3
                /\ Count(b, "disp") = 0 =>
                      /\ items[base + 1].item = "impl"
                      /\ items[base + 1].trait = "ErrorDisplay"
                      /\ items[base + 1].for = key
                      /\ \A p \in Inputs : RunBody(items[base + 1], p) = <<p.text>>
                /\ Count(b, "desc") = 0 =>
                      /\ items[base + 2].item = "impl"
                      /\ items[base + 2].trait = "ErrorDescription"
                      /\ items[base + 2].for = key
                      /\ \A p \in Inputs : RunBody(items[base + 2], p) = <<p.desc>>
                /\ Count(b, "cause") = 0 =>
                      /\ items[base + 3].item = "impl"
                      /\ items[base + 3].trait = "ErrorCause"
                      /\ items[base + 3].for = key
                      /\ \A p \in Inputs : RunBody(items[base + 3], p) = <<>>
                /\ (pc \in {"expanded", "accepted", "rejected"}
                    /\ \A j \in C3_Named(invocation.variants[i].name) :
                          Count(Body(j), "from") = 0) =>
                      Cardinality(C3_FromItems(invocation.variants[i].name))
                          = Cardinality(C3_Named(invocation.variants[i].name))

\* A variant written with a from clause only: its three strategies are the
\* defaults.
C3_Witness ==
    /\ pc = "accepted"
    /\ \E i \in 1..NumVariants :
          /\ Finished(i)
          /\ Len(Body(i)) >= 1
          /\ \A k \in DOMAIN Body(i) : KindOf(Body(i)[k]) = "from"
          /\ items[ItemsBefore(i) + 3].expr = "None"

(***************************************************************************)
(* C4  Cause shorthand.  On a value of a variant whose cause-kind clause   *)
(* in effect (the last one written) is `cause;`, the enum's cause lookup   *)
(* returns what the payload's own cause lookup returns, and not the        *)
(* payload; when it is `cause (e) Some(&**e);`, it returns the payload.    *)
(***************************************************************************)
C4_InEffect(b) == b[Max(Positions(b, "cause"))]

C4_CauseShorthand ==
    pc = "accepted" /\ out.op = "cause" =>
        \A i \in 1..NumVariants :
            (invocation.variants[i].name = val.var /\ Positions(Body(i), "cause") # {}) =>
                LET c == C4_InEffect(Body(i))
                IN  /\ KindOf(c) = "cause;" =>
                          /\ out.res = val.payload.cause
                          /\ out.res # <<val.payload>>
                    /\ (KindOf(c) = "cause" /\ c.body = "Some(&**e)") =>
                          out.res = <<val.payload>>

\* The cause of a `cause;` variant was taken on a payload that has an
\* underlying cause.
C4_Witness ==
    /\ pc = "accepted"
    /\ out.op = "cause"
    /\ val.payload.cause = <<Underlying>>
    /\ out.res = <<Underlying>>
    /\ \E i \in 1..NumVariants :
          /\ invocation.variants[i].name = val.var
          /\ Count(Body(i), "cause") = 1
          /\ \E k \in DOMAIN Body(i) : KindOf(Body(i)[k]) = "cause;"

(***************************************************************************)
(* C5  Bare-payload round trip.  In an accepted expansion every variant    *)
(* has a conversion from its payload type that wraps the value unchanged   *)
(* in that variant: From::from on a value of a variant's payload type      *)
(* gives that variant holding that value.                                  *)
(***************************************************************************)
C5_BarePayloadRoundTrip ==
    pc = "accepted" =>
        \A i \in 1..NumVariants :
            LET v == invocation.variants[i]
            IN  /\ \E k \in DOMAIN items :
                      /\ items[k].item = "impl From"
                      /\ items[k].ty = v.ty
                      /\ items[k].for = invocation.err_name
                      /\ \A p \in Inputs :
                            p.ty = v.ty =>
                                ApplyFrom(items, items[k], p) = [var |-> v.name, payload |-> p]
                /\ (src # NoPayload /\ src.ty = v.ty) =>
                      val = [var |-> v.name, payload |-> src]

\* A payload value was converted into a variant that carries clauses.
C5_Witness ==
    /\ pc = "accepted"
    /\ src # NoPayload
    /\ \E i \in 1..NumVariants :
          /\ src.ty = invocation.variants[i].ty
          /\ Count(Body(i), "from") >= 1
          /\ Len(Body(i)) >= 2
          /\ val = [var |-> invocation.variants[i].name, payload |-> src]

(***************************************************************************)
(* C6  Extra conversions.  Once the emitter has finished a variant, the    *)
(* items it emitted after the three capability implementations are exactly *)
(* one conversion per from clause of the variant's block, each from that   *)
(* clause's source type, with that clause's binding and expression, into   *)
(* this variant; the whole expansion has no other item; and From::from on  *)
(* a value of a from clause's source type gives this variant holding the   *)
(* clause's expression evaluated on that value.                            *)
(***************************************************************************)
C6_IsFromClause(c) == KindOf(c) = "from"

C6_Expected(i) ==
    LET fs == SelectSeq(Body(i), C6_IsFromClause)
    IN  [k \in 1..Len(fs) |->
            [item |-> "impl From", ty |-> fs[k].ty, for |-> invocation.err_name,
             var |-> invocation.variants[i].name, arg |-> fs[k].args[1],
             expr |-> fs[k].body]]

C6_ExtraConversions ==
    /\ \A i \in 1..NumVariants :
          Finished(i) =>
              LET first == ItemsBefore(i) + 4
                  last == ItemsBefore(i) + 3 + Count(Body(i), "from")
              IN  /\ Len(items) >= last
                  /\ SameBag(SubSeq(items, first, last), C6_Expected(i))
                  /\ Len(items) > last => items[last + 1].item # "impl From"
    /\ pc \in {"expanded", "accepted", "rejected"} =>
          Len(items) = ItemsBefore(NumVariants + 1)
    /\ (pc = "accepted" /\ src # NoPayload) =>
          \A i \in 1..NumVariants :
              \A k \in Positions(Body(i), "from") :
                  LET c == Body(i)[k]
                      v == invocation.variants[i]
                  IN  src.ty = c.ty =>
                          val = [var |-> v.name,
                                 payload |-> Eval(c.body, (c.args[1] :> src), v.ty)]

\* A String was converted through the second of two from clauses that are
\* separated by another clause.
C6_Witness ==
    /\ pc = "accepted"
    /\ src.ty = "String"
    /\ val.payload.ty = "Cow<'static, str>"
    /\ \E i \in 1..NumVariants :
          /\ val.var = invocation.variants[i].name
          /\ Len(Body(i)) = 3
          /\ Body(i)[1] = FromStr
          /\ KindOf(Body(i)[2]) \notin {"from", "unrecognized"}
          /\ Body(i)[3] = FromString

(***************************************************************************)
(* C7  Dispatch by variant.  In an accepted expansion the enum-wide        *)
(* display, description and cause of a value held in variant V are the     *)
(* display, description and cause strategies resolved for V, applied to    *)
(* the payload (converted, when the value came through a from clause).     *)
(***************************************************************************)
C7_Strategy(op, cs) ==
    IF op = "fmt" THEN cs.disp ELSE IF op = "description" THEN cs.desc ELSE cs.cause

C7_Default(op, p) ==
    IF op = "fmt" THEN <<p.text>> ELSE IF op = "description" THEN <<p.desc>> ELSE <<>>

C7_Apply(op, cs, p) ==
    LET slot == C7_Strategy(op, cs)
    IN  IF slot = <<>> THEN C7_Default(op, p)
        ELSE IF op = "fmt"
             THEN Eval(slot[2], (slot[1][1] :> p) @@ (slot[1][2] :> "Formatter"), "")
             ELSE Eval(slot[2], (slot[1][1] :> p), "")

C7_DispatchByVariant ==
    pc = "accepted" /\ out.op # "" =>
        \A i \in 1..NumVariants :
            invocation.variants[i].name = val.var =>
                out.res = C7_Apply(out.op, handed[i], val.payload)

\* The description of a value converted through a from clause of the second
\* variant was taken, and the first variant's strategy would have given
\* something else.
C7_Witness ==
    /\ pc = "accepted"
    /\ NumVariants = 2
    /\ out.op = "description"
    /\ val.var = invocation.variants[2].name
    /\ src.ty # val.payload.ty
    /\ out.res = C7_Apply("description", handed[2], val.payload)
    /\ out.res # C7_Apply("description", handed[1], val.payload)

(***************************************************************************)
(* C8  Variant independence.  The display, description, cause and          *)
(* conversion slots handed to the emitter for a variant are those the      *)
(* accumulator resolves for that variant declared alone, in another enum,  *)
(* whatever the other variants of the invocation are and wherever the      *)
(* variant stands among them.                                              *)
(***************************************************************************)
C8_Slots(cs) == <<cs.var_name, cs.var_ty, cs.disp, cs.desc, cs.cause, cs.from>>

C8_Alone(v) == Run(InitialCall("Alone", v))

C8_VariantIndependence ==
    \A i \in DOMAIN handed :
        /\ C8_Alone(invocation.variants[i]) # <<>>
        /\ C8_Slots(handed[i]) = C8_Slots(C8_Alone(invocation.variants[i])[1])

\* The second of two variants with different clause blocks was resolved to
\* slots other than the first's.
C8_Witness ==
    /\ NumVariants = 2
    /\ Len(handed) = 2
    /\ Body(1) # <<>>
    /\ Body(2) # <<>>
    /\ handed[1].desc # handed[2].desc
    /\ handed[1].cause # handed[2].cause
    /\ handed[1].from # handed[2].from

(***************************************************************************)
(* C9  Unrecognized clause.  An accumulator step whose head clause has     *)
(* none of the five shapes fails the expansion, emitting and handing over  *)
(* nothing; a variant whose block has such a clause never gets a ClauseSet *)
(* handed to the emitter, and the invocation never finishes expanding,     *)
(* whatever precedes the clause and whatever the other variants are.       *)
(***************************************************************************)
C9_AtUnrecognized ==
    pc = "var_body" /\ acc.tail # <<>> /\ KindOf(Head(acc.tail)) = "unrecognized"

C9_NeverHanded ==
    \A i \in 1..NumVariants :
        ~AllRecognized(Body(i)) =>
            /\ Len(handed) < i
            /\ pc \notin {"expanded", "accepted", "rejected"}

C9_UnrecognizedFails ==
    /\ [](C9_NeverHanded)
    /\ [][C9_AtUnrecognized => (pc' = "failed" /\ handed' = handed /\ items' = items)]_vars

\* The second variant failed at an unrecognized clause after a recognized
\* one, the first variant having gone through the emitter.
C9_Witness ==
    /\ pc = "failed"
    /\ NumVariants = 2
    /\ Len(handed) = 1
    /\ AllRecognized(Body(1))
    /\ Len(Body(2)) = 2
    /\ KindOf(Body(2)[1]) # "unrecognized"
    /\ acc.tail = <<Body(2)[2]>>
    /\ KindOf(Body(2)[2]) = "unrecognized"

(***************************************************************************)
(* C10  Description shorthand.  As claimed: `desc ();` in a variant's      *)
(* block is a recognized clause, so no expansion fails at it.              *)
(***************************************************************************)
C10_IsDescShorthand(c) == c.kw = "desc" /\ c.paren /\ c.args = <<>> /\ c.body = ""

C10_DescShorthandRecognized ==
    ~(pc = "failed" /\ acc.tail # <<>> /\ C10_IsDescShorthand(Head(acc.tail)))

\* C10 as amended: `desc ();` in a variant's block is not a recognized
\* clause: a variant whose block has it never reaches the emitter.  The
\* description resolves to delegation to the payload's own description
\* exactly when the block has no desc clause: the description slot is then
\* handed to the emitter unset, as `desc ()`, and the emitted
\* implementation returns the payload's own description.
C10_DescDefault ==
    /\ \A i \in 1..NumVariants :
          (\E k \in DOMAIN Body(i) : C10_IsDescShorthand(Body(i)[k])) =>
              /\ Len(handed) < i
              /\ pc \notin {"expanded", "accepted", "rejected"}
    /\ \A i \in 1..NumVariants :
          Finished(i) =>
              /\ (handed[i].desc = <<>>) <=> (Count(Body(i), "desc") = 0)
              /\ Len(items) >= ItemsBefore(i) + 2
              /\ Count(Body(i), "desc") = 0 =>
                    /\ items[ItemsBefore(i) + 2].expr
                           = "::std::error::Error::description(self.1)"
                    /\ \A p \in Inputs :
                          RunBody(items[ItemsBefore(i) + 2], p) = <<p.desc>>

\* An expansion failed at `desc ();` written after a disp clause.
C10_Witness ==
    /\ pc = "failed"
    /\ acc.tail # <<>>
    /\ Head(acc.tail) = DescEmpty
    /\ acc.disp # <<>>
    /\ handed = <<>>

(***************************************************************************)
(* C11  Conversion order.  As claimed: for from clauses written in the     *)
(* order f1, ..., fn, the conversion list handed to the emitter and the    *)
(* conversions it emits are in the order f1, ..., fn.                      *)
(***************************************************************************)
C11_Written(i) ==
    LET fs == SelectSeq(Body(i), C6_IsFromClause)
    IN  [k \in 1..Len(fs) |-> <<fs[k].args[1], fs[k].ty, fs[k].body>>]

C11_Reverse(s) == [k \in 1..Len(s) |-> s[Len(s) + 1 - k]]

C11_Emitted(i) ==
    SubSeq(items, ItemsBefore(i) + 4, ItemsBefore(i) + 3 + Count(Body(i), "from"))

C11_SourceOrder ==
    \A i \in 1..NumVariants :
        Finished(i) =>
            /\ handed[i].from = C11_Written(i)
            /\ C11_Emitted(i) = C6_Expected(i)

\* C11 as amended: the conversion accumulator puts each from clause in
\* front of those accumulated before it; for from clauses written in the
\* order f1, ..., fn (with any other clauses interleaved), the conversion
\* list handed to the emitter and the conversions it emits are in the order
\* fn, ..., f1.
C11_ReverseOrder ==
    \A i \in 1..NumVariants :
        Finished(i) =>
            /\ handed[i].from = C11_Reverse(C11_Written(i))
            /\ Len(items) >= ItemsBefore(i) + 3 + Count(Body(i), "from")
            /\ C11_Emitted(i) = C11_Reverse(C6_Expected(i))

\* Two different from clauses separated by a desc clause went through the
\* emitter.
C11_Witness ==
    /\ pc = "accepted"
    /\ \E i \in 1..NumVariants :
          /\ Finished(i)
          /\ Len(Body(i)) = 3
          /\ Body(i)[1] = FromString
          /\ KindOf(Body(i)[2]) = "desc"
          /\ Body(i)[3] = FromStr
          /\ handed[i].from = <<Conversion(FromStr), Conversion(FromString)>>

(***************************************************************************)
(* C12  No name collision.  As claimed: an invocation expanded into a      *)
(* scope that holds the items of an earlier invocation for an enum of      *)
(* another name defines no enum or trait under a name the scope already    *)
(* has.                                                                    *)
(***************************************************************************)
C12_Named(it) == it.item \in {"enum", "trait"}

C12_NoNameCollision ==
    \A i \in DOMAIN scope :
        \A j \in DOMAIN items :
            (C12_Named(scope[i]) /\ C12_Named(items[j])) =>
                scope[i].name # items[j].name

(***************************************************************************)
(* C13  Multi-hop composition.  When a value e of the enum is boxed as a   *)
(* generic error and the box is converted back through the bare-payload    *)
(* conversion of a variant whose desc clause in effect is                  *)
(* `desc (e) e.description();`, the description of the result is the       *)
(* description e had, whatever variant e was in and however many times     *)
(* the value has been re-wrapped.                                          *)
(***************************************************************************)
C13_Delegates(b) ==
    /\ Positions(b, "desc") # {}
    /\ b[Max(Positions(b, "desc"))].body = "e.description()"

C13_Rewrapped(i) ==
    /\ boxed.box # NoPayload
    /\ src = boxed.box
    /\ val = [var |-> invocation.variants[i].name, payload |-> boxed.box]
    /\ invocation.variants[i].ty = boxed.box.ty
    /\ C13_Delegates(Body(i))

C13_MultiHop ==
    pc = "accepted" =>
        \A i \in 1..NumVariants :
            C13_Rewrapped(i) =>
                /\ Dispatch(items, "ErrorDescription", val) = boxed.desc
                /\ out.op = "description" => out.res = boxed.desc

\* A value that came from a &'static str through the first variant has
\* been boxed and re-wrapped twice, and its description, still the text of
\* the string, was taken.
C13_Witness ==
    /\ pc = "accepted"
    /\ NumVariants = 2
    /\ C13_Rewrapped(2)
    /\ boxed.hops = MaxHops
    /\ out.op = "description"
    /\ out.res = <<"Hello, World!">>
    /\ out.res = boxed.desc
    /\ Count(Body(1), "from") = 2

(***************************************************************************)
(* C14  Grammar normalization.  Once error_type! has matched, the items    *)
(* hold exactly one enum declaration: it has the invocation's attributes   *)
(* in their order, each once, is `pub` exactly when the invocation is, has *)
(* the invocation's enum name and lists the variants in declaration order  *)
(* as name(Type) only; and the error_type_var_body! calls made for the     *)
(* variants carry each variant's name, type and whole clause block.        *)
(***************************************************************************)
C14_Enums == {k \in DOMAIN items : items[k].item = "enum"}

C14_Current == NumVariants - Len(queue)

C14_IsSuffix(t, b) == Len(t) <= Len(b) /\ t = SubSeq(b, Len(b) - Len(t) + 1, Len(b))

C14_Normalized ==
    (pc # "error_type" /\ NumVariants >= 1) =>
        /\ Cardinality(C14_Enums) = 1
        /\ \A k \in C14_Enums :
              /\ k = 1
              /\ items[k].attrs = invocation.attrs
              /\ items[k].pub = invocation.pub
              /\ items[k].name = invocation.err_name
              /\ Len(items[k].variants) = NumVariants
              /\ \A i \in 1..NumVariants :
                    items[k].variants[i]
                        = [name |-> invocation.variants[i].name,
                           ty |-> invocation.variants[i].ty]
        /\ pc # "error_type_impl" =>
              /\ C14_Current \in 1..NumVariants
              /\ acc.var_name = invocation.variants[C14_Current].name
              /\ acc.var_ty = invocation.variants[C14_Current].ty
              /\ C14_IsSuffix(acc.tail, Body(C14_Current))
              /\ \A j \in DOMAIN queue :
                    /\ queue[j].var_name = invocation.variants[C14_Current + j].name
                    /\ queue[j].var_ty = invocation.variants[C14_Current + j].ty
                    /\ queue[j].tail = Body(C14_Current + j)

\* A non-pub invocation with an attribute and two variants that carry
\* clauses has been normalized, the second variant still waiting.
C14_Witness ==
    /\ pc = "var_body"
    /\ ~invocation.pub
    /\ Len(invocation.attrs) = 1
    /\ NumVariants = 2
    /\ Len(queue) = 1
    /\ Len(Body(1)) >= 2
    /\ Len(Body(2)) >= 2
    /\ acc.tail = Body(1)

(***************************************************************************)
(* C15  Variant count.  An invocation with no variant matches no rule of   *)
(* error_type!: it fails and nothing is ever emitted.  An invocation with  *)
(* exactly one variant, with or without a trailing comma, matches a rule,  *)
(* and when its clauses are recognized its expansion never fails, can      *)
(* always take its next step, and ends with the enum, the enum-wide items  *)
(* and the variant's own items all emitted.                                *)
(***************************************************************************)
C15_Expanding == pc \in {"error_type", "error_type_impl", "var_body", "var_body_emit"}

C15_VariantCount ==
    /\ NumVariants = 0 =>
          /\ items = <<>>
          /\ pc \in {"error_type", "failed"}
          /\ ~ENABLED (error_type_pub \/ error_type_priv)
    /\ (NumVariants = 1 /\ pc = "error_type") =>
          ENABLED (error_type_pub \/ error_type_priv)
    /\ (NumVariants = 1 /\ AllRecognized(Body(1))) =>
          /\ pc # "failed"
          /\ C15_Expanding => ENABLED Next
          /\ ~C15_Expanding =>
                /\ Finished(1)
                /\ Len(items) = ItemsBefore(2)
                /\ items[1].item = "enum"

\* A one-variant invocation written with a trailing comma was accepted.
C15_Witness ==
    /\ pc = "accepted"
    /\ NumVariants = 1
    /\ invocation.commas = 1
    /\ Len(items) = ItemsBefore(2)

(***************************************************************************)
(* C16  Termination.  On a block of recognized clauses every accumulator   *)
(* step consumes exactly the clause at the head of the remaining block and *)
(* hands nothing over; the step on the empty block hands the accumulated   *)
(* tuple to the emitter, once per variant, as the four pairs disp, desc,   *)
(* cause, from; every emitter step consumes exactly the pair at the head;  *)
(* a step is always possible until the emitter has nothing left; and the   *)
(* expansion of the variant does reach that point.                         *)
(***************************************************************************)
C16_FourSlots(cs) ==
    <<<<"disp", cs.disp>>, <<"desc", cs.desc>>, <<"cause", cs.cause>>, <<"from", cs.from>>>>

C16_Position ==
    /\ Len(handed) <= NumVariants
    /\ pc = "var_body" =>
          /\ Len(handed) = C14_Current - 1
          /\ C14_IsSuffix(acc.tail, Body(C14_Current))
          /\ AllRecognized(acc.tail) => ENABLED ExpandStep
    /\ pc = "var_body_emit" =>
          /\ Len(handed) = C14_Current
          /\ C14_IsSuffix(emit.tail, C16_FourSlots(handed[C14_Current]))
          /\ ENABLED ExpandStep

C16_Step ==
    /\ (pc = "var_body" /\ acc.tail # <<>> /\ KindOf(Head(acc.tail)) # "unrecognized") =>
          /\ pc' = "var_body"
          /\ acc'.tail = Tail(acc.tail)
          /\ handed' = handed
    /\ (pc = "var_body" /\ acc.tail = <<>>) =>
          /\ pc' = "var_body_emit"
          /\ Len(handed') = Len(handed) + 1
          /\ emit'.tail = C16_FourSlots(handed'[Len(handed')])
    /\ (pc = "var_body_emit" /\ emit.tail # <<>>) =>
          /\ pc' = "var_body_emit"
          /\ emit'.tail = Tail(emit.tail)
          /\ handed' = handed
    /\ (pc = "var_body_emit" /\ emit.tail = <<>>) =>
          /\ pc' \in {"var_body", "expanded"}
          /\ handed' = handed

C16_Started == pc = "var_body" /\ AllRecognized(acc.tail)

C16_EmitterDone == pc = "var_body_emit" /\ emit.tail = <<>>

C16_Termination ==
    /\ [](C16_Position)
    /\ [][C16_Step]_vars
    /\ C16_Started ~> C16_EmitterDone

\* The emitter has nothing left for a variant written with as many
\* recognized clauses as the explored blocks have.
C16_Witness ==
    /\ C16_EmitterDone
    /\ Len(Body(C14_Current)) >= 3
    /\ AllRecognized(Body(C14_Current))
    /\ Len(handed) = C14_Current

(***************************************************************************)
(* C17  Frame of an accumulator step.  A step on a disp clause leaves the  *)
(* description, cause and conversion slots as they were, a step on a desc  *)
(* clause the display, cause and conversion slots, a step on a             *)
(* `cause (e) expr;` or `cause;` clause the display, description and       *)
(* conversion slots, and a step on a from clause the display, description  *)
(* and cause slots, adding one conversion and keeping every conversion     *)
(* already accumulated; no step changes the enum name, the variant name or *)
(* the payload type of the scan.                                           *)
(***************************************************************************)
C17_Scanning == pc = "var_body" /\ pc' = "var_body" /\ acc.tail # <<>>

C17_Threaded(a) == <<a.err_name, a.var_name, a.var_ty, a.edi_tr, a.ede_tr, a.ec_tr>>

\* The conversions of `old` are those of `new` with one of them taken out.
C17_OneAdded(old, new) ==
    \E k \in DOMAIN new :
        old = SubSeq(new, 1, k - 1) \o SubSeq(new, k + 1, Len(new))

C17_Frame ==
    C17_Scanning =>
        LET slot == SlotOf(Head(acc.tail))
        IN  /\ C17_Threaded(acc') = C17_Threaded(acc)
            /\ slot # "disp" => acc'.disp = acc.disp
            /\ slot # "desc" => acc'.desc = acc.desc
            /\ slot # "cause" => acc'.cause = acc.cause
            /\ slot # "from" => acc'.from = acc.from
            /\ slot = "from" => C17_OneAdded(acc.from, acc'.from)
            /\ slot = "disp" => acc'.disp = Slot(Head(acc.tail))
            /\ slot = "desc" => acc'.desc = Slot(Head(acc.tail))
            /\ slot = "cause" => acc'.cause = C2_Written(Head(acc.tail))

C17_FrameOfStep == [][C17_Frame]_vars

\* A `cause;` clause has been stored after a desc clause and a from clause.
C17_Witness ==
    /\ pc = "var_body"
    /\ acc.tail = <<>>
    /\ Len(Body(C14_Current)) = 3
    /\ KindOf(Body(C14_Current)[3]) = "cause;"
    /\ acc.desc # <<>>
    /\ acc.from # <<>>
    /\ acc.cause = AutoCauseSlot

(***************************************************************************)
(* C18  Always-present contributions.  Once the emitter is done with a     *)
(* variant, the items it emitted for that variant hold exactly one         *)
(* ErrorDisplay, exactly one ErrorDescription and exactly one ErrorCause   *)
(* implementation, each for the pair (enum, payload type of the variant),  *)
(* whichever clauses the block holds and in whichever order; and in an     *)
(* accepted invocation each of the three is the only implementation of its *)
(* trait for that pair among all the items.                                *)
(***************************************************************************)
C18_Traits == {"ErrorDisplay", "ErrorDescription", "ErrorCause"}

\* The positions in items of what the emitter emitted for variant i.
C18_Emitted(i) ==
    {k \in DOMAIN items :
        k > ItemsBefore(i) /\ k <= ItemsBefore(i) + 3 + Count(Body(i), "from")}

C18_Pair(i) == <<invocation.err_name, invocation.variants[i].ty>>

C18_Contributions(S, trait, pair) ==
    {k \in S : items[k].item = "impl" /\ items[k].trait = trait /\ items[k].for = pair}

C18_ExactlyOne(S, i) ==
    \A trait \in C18_Traits :
        /\ Cardinality(C18_Contributions(S, trait, C18_Pair(i))) = 1
        /\ Cardinality({k \in S : items[k].item = "impl" /\ items[k].trait = trait}) = 1

C18_AlwaysPresent ==
    \A i \in 1..NumVariants :
        /\ Finished(i) => C18_ExactlyOne(C18_Emitted(i), i)
        /\ pc = "accepted" =>
              \A trait \in C18_Traits :
                  Cardinality(C18_Contributions(DOMAIN items, trait, C18_Pair(i))) = 1

\* An accepted invocation of two variants, one written with no clause at all
\* and one with a disp and a desc clause.
C18_Witness ==
    /\ pc = "accepted"
    /\ NumVariants = 2
    /\ \E i, j \in 1..2 :
          /\ Body(i) = <<>>
          /\ Count(Body(j), "disp") = 1
          /\ Count(Body(j), "desc") = 1
          /\ Count(Body(j), "cause") = 0

(***************************************************************************)
(* C19  Slot content invariant.  While the accumulator scans a variant's   *)
(* block, each of the display, description and cause slots is unset when   *)
(* the clauses processed so far hold no clause of its kind, and otherwise  *)
(* holds what the last processed clause of its kind wrote;                 *)
(* `cause (e) expr;` and `cause;` write the same slot, and `cause;` writes *)
(* the one-argument custom form whose expression is the payload's own      *)
(* cause lookup.                                                           *)
(***************************************************************************)
C19_Processed ==
    SubSeq(Body(C14_Current), 1, Len(Body(C14_Current)) - Len(acc.tail))

C19_LastIsShorthand(b) ==
    /\ Positions(b, "cause") # {}
    /\ KindOf(b[Max(Positions(b, "cause"))]) = "cause;"

C19_SlotContent ==
    pc = "var_body" =>
        /\ C14_IsSuffix(acc.tail, Body(C14_Current))
        /\ acc.disp = C2_Last(C19_Processed, "disp")
        /\ acc.desc = C2_Last(C19_Processed, "desc")
        /\ acc.cause = C2_Last(C19_Processed, "cause")
        /\ C19_LastIsShorthand(C19_Processed) =>
              /\ IsCustom(acc.cause, 1)
              /\ acc.cause[2] = "::std::error::Error::cause(e)"
              /\ acc.cause[1] = <<"e">>

\* The scan has passed two different desc clauses and then a `cause;`
\* clause, and no disp clause.
C19_Witness ==
    /\ pc = "var_body"
    /\ Len(C19_Processed) = 3
    /\ Count(C19_Processed, "desc") = 2
    /\ C19_Processed[1] # C19_Processed[2]
    /\ C19_LastIsShorthand(C19_Processed)
    /\ acc.desc = Slot(C19_Processed[2])
    /\ acc.disp = <<>>

(***************************************************************************)
(* C20  Uniqueness of emitted implementations.  A finished expansion holds *)
(* one conversion into the enum per variant payload type and one per from  *)
(* clause, and one ErrorDisplay, ErrorDescription and ErrorCause           *)
(* implementation per variant, keyed by (enum, payload type), none left    *)
(* out for repeating another.  So two conversions have the same source     *)
(* type exactly when two of the written source types (payload types and    *)
(* from clause types) are the same, two implementations of one capability  *)
(* trait have the same key exactly when two variants share a payload type, *)
(* and when the written source types are pairwise distinct no two emitted  *)
(* implementations have the same key.                                      *)
(***************************************************************************)
C20_Done == pc \in {"expanded", "accepted", "rejected"}

\* The written source types, by where they are written: the payload type of
\* variant i, or the type of the from clause at position k of variant i.
C20_Written ==
    {<<i, 0>> : i \in 1..NumVariants}
        \cup UNION {{<<i, k>> : k \in Positions(Body(i), "from")} : i \in 1..NumVariants}

C20_Ty(w) == IF w[2] = 0 THEN invocation.variants[w[1]].ty ELSE Body(w[1])[w[2]].ty

C20_Conversions == {k \in DOMAIN items : items[k].item = "impl From"}

C20_Capabilities(trait) ==
    {k \in DOMAIN items : items[k].item = "impl" /\ items[k].trait = trait}

C20_Impls == {k \in DOMAIN items : items[k].item \in {"impl From", "impl"}}

C20_SharedSource == \E v, w \in C20_Written : v # w /\ C20_Ty(v) = C20_Ty(w)

C20_SharedPayload ==
    \E i, j \in 1..NumVariants :
        i # j /\ invocation.variants[i].ty = invocation.variants[j].ty

C20_NoDeduplication ==
    /\ \A k \in C20_Conversions : items[k].for = invocation.err_name
    /\ \A ty \in {C20_Ty(w) : w \in C20_Written} \cup {items[k].ty : k \in C20_Conversions} :
          Cardinality({k \in C20_Conversions : items[k].ty = ty})
              = Cardinality({w \in C20_Written : C20_Ty(w) = ty})
    /\ \A trait \in C18_Traits :
          /\ Cardinality(C20_Capabilities(trait)) = NumVariants
          /\ \A i \in 1..NumVariants :
                Cardinality(C18_Contributions(DOMAIN items, trait, C18_Pair(i)))
                    = Cardinality({j \in 1..NumVariants :
                                      invocation.variants[j].ty = invocation.variants[i].ty})

C20_OverlapExactly ==
    /\ (\E k, l \in C20_Conversions : k # l /\ items[k].ty = items[l].ty) <=> C20_SharedSource
    /\ \A trait \in C18_Traits :
          (\E k, l \in C20_Capabilities(trait) : k # l /\ items[k].for = items[l].for)
              <=> C20_SharedPayload
    /\ ~C20_SharedSource =>
          \A k, l \in C20_Impls : k # l => ImplKey(items[k]) # ImplKey(items[l])

C20_Uniqueness == C20_Done => C20_NoDeduplication /\ C20_OverlapExactly

\* A finished expansion in which the source type of a from clause of one
\* variant is the payload type of another variant.
C20_Witness ==
    /\ C20_Done
    /\ ~C20_SharedPayload
    /\ \E v, w \in C20_Written :
          /\ v[2] = 0
          /\ w[2] # 0
          /\ v[1] # w[1]
          /\ C20_Ty(v) = C20_Ty(w)
    /\ \E k, l \in C20_Conversions : k # l /\ items[k].ty = items[l].ty

====
